---- MODULE Spec2Model ----
(***************************************************************************)
(* A model of package jsonhal (src/jsonhal.go, the version that carries    *)
(* the mapstructure decoder, lines 99-255).                                *)
(*                                                                         *)
(* One Hal value (the "Envelope") is modelled together with the caller's   *)
(* decode targets and the Link objects the Links map points to.  Every     *)
(* exported method is one action; the value a method returns is kept in    *)
(* `ret` until the next call.                                              *)
(***************************************************************************)
EXTENDS Integers, Sequences, FiniteSets, TLC

\* ---------------------------------------------------------------- bounds

\* Link cells the heap offers per relation name: the one the map points to
\* and one for a Link the caller still holds after the name was set again.
CellsPerName == 2

\* Longest embedded slice that is tried.
MaxLen == 2

\* ---------------------------------------------------------------- inputs

\* Relation names passed to SetLink / GetLink / DeleteLink.
LinkNames == {"self", "next"}

\* The relation names of the test of the document's key order (TestHal sets
\* self, next and previous): the names above and "previous".
AllNames == LinkNames \cup {"previous"}

\* Resource names passed to the *Embedded methods.
EmbNames == {"foobar", "foobars"}

Hrefs == {"/v1/foo/1", "/v1/foo/2"}

Titles == {"", "Foo"}

\* ------------------------------------------------------------ the values

\* The nil *Link (GetLink's first result on failure).
NilPtr == << >>

\* The addresses of the Link cells.
Addr == AllNames \X (1..CellsPerName)

\* The zero Link, the content of a heap cell nothing points to.
ZeroLink == [Href |-> "", Title |-> ""]

\* A Go map: `alloc` is FALSE for the nil map, `m` holds the entries.
EmptyMap == << >>

NilMap == [alloc |-> FALSE, m |-> EmptyMap]

MapPut(f, k, v) == [x \in (DOMAIN f) \cup {k} |-> IF x = k THEN v ELSE f[x]]

MapDelete(f, k) == [x \in (DOMAIN f) \ {k} |-> f[x]]

\* time.RFC3339 strings tried as the "at" entry of an embedded map.
GoodTime == "2006-01-02T15:04:05Z"

BadTime == "yesterday"

\* Embedded is interface{}: the nil interface, a scalar, a slice, a map.
NilVal == [kind |-> "nil"]

ScalarVal == [kind |-> "int", v |-> 7]

SliceVal(n) == [kind |-> "slice", elems |-> [i \in 1..n |-> i]]

MapVal(id, at) == [kind |-> "map", m |-> [id |-> id, at |-> at]]

MapVals == {MapVal(1, GoodTime), MapVal(2, BadTime)}

EmbValues == {NilVal, ScalarVal} \cup {SliceVal(0), SliceVal(MaxLen)} \cup MapVals

\* The caller's decode targets: two variables of a struct type
\* {ID int; At time.Time}, passed by pointer, and a struct passed by value.
Targets == {"t1", "t2"}

NonPointer == "byvalue"

TargetArgs == Targets \cup {NonPointer}

ZeroTarget == [ID |-> 0, At |-> 0]

NoDecoder == "nil"

\* ----------------------------------------------------------------- state

VARIABLES
    Links,      \* Hal.Links: [alloc, m], m maps a name to the address of its Link
    heap,       \* the Link objects: Addr -> [Href, Title]
    Embedded,   \* Hal.Embedded: [alloc, m], m maps a name to its value
    decoder,    \* Hal.decoder: NoDecoder, or the target its config.Result points to
    targets,    \* the caller's decode targets
    held,       \* a *Link the caller kept from an earlier GetLink, or NilPtr
    ret,        \* what the most recent call returned
    lastLinkOp, \* history: per name, the arguments of the most recent SetLink
                \* that no DeleteLink of the name has followed
    lastEmbOp,  \* history: the same for SetEmbedded and DeleteEmbedded
    setOrder    \* the caller's log: the names the links map holds, in the
                \* order of the SetLink calls that installed them (kept
                \* only by the caller of SpecOrder)

vars ==
    <<Links, heap, Embedded, decoder, targets, held, ret, lastLinkOp, lastEmbOp,
      setOrder>>

NoErr == ""

NoRet ==
    [op |-> "none", name |-> "", outcome |-> "none", err |-> NoErr,
     link |-> NilPtr, val |-> NilVal, n |-> 0, target |-> "", doc |-> << >>]

NoOp == [op |-> "none"]

Init ==
    /\ Links = NilMap
    /\ heap = [a \in Addr |-> ZeroLink]
    /\ Embedded = NilMap
    /\ decoder = NoDecoder
    /\ targets = [t \in Targets |-> ZeroTarget]
    /\ held = NilPtr
    /\ ret = NoRet
    /\ lastLinkOp = [n \in AllNames |-> NoOp]
    /\ lastEmbOp = [n \in EmbNames |-> NoOp]
    /\ setOrder = << >>

\* A panic that nothing recovers ends the process: no call follows it.
Running == ret.outcome # "panic"

\* ------------------------------------------------------------- the links

\* fmt.Errorf("Link \"%s\" not found", name)
LinkNotFound(name) == "Link \"" \o name \o "\" not found"

\* The Link objects something still points to: the map's and the caller's.
LiveAddrs(m, keep) == {m[k] : k \in DOMAIN m} \cup ({keep} \ {NilPtr})

\* &Link{...} for `name`: a cell that no pointer still in use refers to (the
\* cell of the entry being replaced is free again unless the caller holds it).
NewAddr(name, m, keep) ==
    CHOOSE a \in Addr \ LiveAddrs(m, keep) :
        /\ a[1] = name
        /\ \A b \in Addr \ LiveAddrs(m, keep) : b[1] = name => a[2] <= b[2]

\* The heap once the cells in `live` are all that is reachable.
Collect(h, live) == [a \in Addr |-> IF a \in live THEN h[a] ELSE ZeroLink]

\* SetLink keeps the first Link of a name instead of replacing it.
SetLinkKeepsFirst(name, href, title) ==
    LET base == IF Links.alloc THEN Links.m ELSE EmptyMap
        a == NewAddr(name, MapDelete(base, name), held)
        m == IF name \in DOMAIN base THEN base ELSE MapPut(base, name, a)
    IN  /\ Running
        /\ Links' = [alloc |-> TRUE, m |-> m]
        /\ heap' = Collect(IF name \in DOMAIN base THEN heap
                           ELSE [heap EXCEPT ![a] = [Href |-> href, Title |-> title]],
                           LiveAddrs(m, held))
        /\ lastLinkOp' = [lastLinkOp EXCEPT
                             ![name] = [op |-> "set", href |-> href, title |-> title]]
        /\ ret' = [NoRet EXCEPT !.op = "SetLink", !.name = name, !.outcome = "ok"]
        /\ UNCHANGED <<Embedded, decoder, targets, held, lastEmbOp>>

\* func (h *Hal) SetLink(name, href, title string)
SetLink(name, href, title) ==
    LET base == IF Links.alloc THEN Links.m ELSE EmptyMap
        a == NewAddr(name, MapDelete(base, name), held)
        m == MapPut(base, name, a)
    IN  /\ Running
        /\ Links' = [alloc |-> TRUE, m |-> m]
        /\ heap' = Collect([heap EXCEPT ![a] = [Href |-> href, Title |-> title]],
                           LiveAddrs(m, held))
        /\ lastLinkOp' = [lastLinkOp EXCEPT
                             ![name] = [op |-> "set", href |-> href, title |-> title]]
        /\ ret' = [NoRet EXCEPT !.op = "SetLink", !.name = name, !.outcome = "ok"]
        /\ UNCHANGED <<Embedded, decoder, targets, held, lastEmbOp>>

\* DeleteLink allocates the map it was asked to delete from.
DeleteLinkAllocates(name) ==
    LET base == IF Links.alloc THEN Links.m ELSE EmptyMap
        m == MapDelete(base, name)
    IN  /\ Running
        /\ Links' = [alloc |-> TRUE, m |-> m]
        /\ heap' = Collect(heap, LiveAddrs(m, held))
        /\ lastLinkOp' = [lastLinkOp EXCEPT ![name] = NoOp]
        /\ ret' = [NoRet EXCEPT !.op = "DeleteLink", !.name = name, !.outcome = "ok"]
        /\ UNCHANGED <<Embedded, decoder, targets, held, lastEmbOp>>

\* func (h *Hal) DeleteLink(name string)
DeleteLink(name) ==
    LET m == IF Links.alloc THEN MapDelete(Links.m, name) ELSE Links.m
    IN  /\ Running
        /\ Links' = [Links EXCEPT !.m = m]
        /\ heap' = Collect(heap, LiveAddrs(m, held))
        /\ lastLinkOp' = [lastLinkOp EXCEPT ![name] = NoOp]
        /\ ret' = [NoRet EXCEPT !.op = "DeleteLink", !.name = name, !.outcome = "ok"]
        /\ UNCHANGED <<Embedded, decoder, targets, held, lastEmbOp>>

\* GetLink answers a missing name with the zero Link's cell and no error.
LookupLinkDefaults(name) ==
    IF Links.alloc /\ name \in DOMAIN Links.m
    THEN [link |-> Links.m[name], err |-> NoErr]
    ELSE [link |-> NilPtr, err |-> NoErr]

\* The two results of GetLink(name).
LookupLink(name) ==
    IF ~Links.alloc
    THEN [link |-> NilPtr, err |-> LinkNotFound(name)]
    ELSE IF name \notin DOMAIN Links.m
         THEN [link |-> NilPtr, err |-> LinkNotFound(name)]
         ELSE [link |-> Links.m[name], err |-> NoErr]

\* func (h *Hal) GetLink(name string) (*Link, error)
GetLink(name) ==
    LET r == LookupLink(name)
    IN  /\ Running
        /\ ret' = [NoRet EXCEPT !.op = "GetLink", !.name = name,
                                !.outcome = IF r.err = NoErr THEN "ok" ELSE "error",
                                !.err = r.err, !.link = r.link]
        /\ UNCHANGED <<Links, heap, Embedded, decoder, targets, held,
                       lastLinkOp, lastEmbOp, setOrder>>

\* ---------------------------------------------------------- the embedded

\* fmt.Errorf("Embedded \"%s\" not found", name)
EmbeddedNotFound(name) == "Embedded \"" \o name \o "\" not found"

\* errors.New("Embedded object is not a slice or a map")
InvalidShape == "Embedded object is not a slice or a map"

\* func (h *Hal) SetEmbedded(name string, embedded Embedded)
SetEmbedded(name, embedded) ==
    LET base == IF Embedded.alloc THEN Embedded.m ELSE EmptyMap
    IN  /\ Running
        /\ Embedded' = [alloc |-> TRUE, m |-> MapPut(base, name, embedded)]
        /\ lastEmbOp' = [lastEmbOp EXCEPT ![name] = [op |-> "set", val |-> embedded]]
        /\ ret' = [NoRet EXCEPT !.op = "SetEmbedded", !.name = name, !.outcome = "ok"]
        /\ UNCHANGED <<Links, heap, decoder, targets, held, lastLinkOp, setOrder>>

\* DeleteEmbedded leaves the entry where it is.
DeleteEmbeddedKeeps(name) ==
    /\ Running
    /\ lastEmbOp' = [lastEmbOp EXCEPT ![name] = NoOp]
    /\ ret' = [NoRet EXCEPT !.op = "DeleteEmbedded", !.name = name, !.outcome = "ok"]
    /\ UNCHANGED <<Links, heap, Embedded, decoder, targets, held, lastLinkOp, setOrder>>

\* func (h *Hal) DeleteEmbedded(name string)
DeleteEmbedded(name) ==
    /\ Running
    /\ Embedded' = IF Embedded.alloc
                   THEN [Embedded EXCEPT !.m = MapDelete(Embedded.m, name)]
                   ELSE Embedded
    /\ lastEmbOp' = [lastEmbOp EXCEPT ![name] = NoOp]
    /\ ret' = [NoRet EXCEPT !.op = "DeleteEmbedded", !.name = name, !.outcome = "ok"]
    /\ UNCHANGED <<Links, heap, decoder, targets, held, lastLinkOp, setOrder>>

\* The two results of GetEmbedded(name).
LookupEmbedded(name) ==
    IF ~Embedded.alloc
    THEN [val |-> NilVal, err |-> EmbeddedNotFound(name)]
    ELSE IF name \notin DOMAIN Embedded.m
         THEN [val |-> NilVal, err |-> EmbeddedNotFound(name)]
         ELSE [val |-> Embedded.m[name], err |-> NoErr]

\* func (h *Hal) GetEmbedded(name string) (Embedded, error)
GetEmbedded(name) ==
    LET r == LookupEmbedded(name)
    IN  /\ Running
        /\ ret' = [NoRet EXCEPT !.op = "GetEmbedded", !.name = name,
                                !.outcome = IF r.err = NoErr THEN "ok" ELSE "error",
                                !.err = r.err, !.val = r.val]
        /\ UNCHANGED <<Links, heap, Embedded, decoder, targets, held,
                       lastLinkOp, lastEmbOp, setOrder>>

\* reflect.ValueOf(e).Len() of a slice or a map.
ValueLen(e) == IF e.kind = "slice" THEN Len(e.elems) ELSE Cardinality(DOMAIN e.m)

\* The outcome of CountEmbedded(name).  reflect.TypeOf of the nil interface is
\* the nil Type, and the call of Kind() on it is a nil dereference: a run-time
\* panic, which CountEmbedded does not recover.
CountOf(name) ==
    LET r == LookupEmbedded(name)
    IN  IF r.err # NoErr
        THEN [outcome |-> "error", n |-> 0, err |-> r.err]
        ELSE IF r.val.kind = "nil"
             THEN [outcome |-> "panic", n |-> 0, err |-> NoErr]
             ELSE IF r.val.kind # "slice" /\ r.val.kind # "map"
                  THEN [outcome |-> "error", n |-> 0, err |-> InvalidShape]
                  ELSE [outcome |-> "ok", n |-> ValueLen(r.val), err |-> NoErr]

\* func (h *Hal) CountEmbedded(name string) (int, error)
CountEmbedded(name) ==
    LET c == CountOf(name)
    IN  /\ Running
        /\ ret' = [NoRet EXCEPT !.op = "CountEmbedded", !.name = name,
                                !.outcome = c.outcome, !.err = c.err, !.n = c.n]
        /\ UNCHANGED <<Links, heap, Embedded, decoder, targets, held,
                       lastLinkOp, lastEmbOp, setOrder>>

\* ------------------------------------------------------------ the decoder

\* time.Parse(time.RFC3339, s); a time.Time is modelled by its Unix seconds.
ParseRFC3339(s) ==
    IF s = GoodTime
    THEN [val |-> 1136214245, err |-> NoErr]
    ELSE [val |-> 0, err |-> "parsing time \"" \o s \o "\" as RFC3339"]

\* func (h *Hal) decodeHook(f reflect.Type, t reflect.Type, data interface{})
decodeHook(f, t, data) ==
    IF t = "time.Time" /\ f = "string"
    THEN ParseRFC3339(data)
    ELSE [val |-> data, err |-> NoErr]

\* mapstructure's Decoder.Decode(e) into a struct {ID int; At time.Time} that
\* holds `old`: nil input writes nothing; a map fills the fields its keys name,
\* each value passed through the decode hook, and a field whose value fails
\* keeps what it held; anything else is refused.
DecodeValue(e, old) ==
    IF e.kind = "nil"
    THEN [val |-> old, err |-> NoErr]
    ELSE IF e.kind = "map"
         THEN LET id == decodeHook("int", "int", e.m.id)
                  at == decodeHook("string", "time.Time", e.m.at)
              IN  [val |-> [ID |-> id.val,
                            At |-> IF at.err = NoErr THEN at.val ELSE old.At],
                   err |-> at.err]
         ELSE [val |-> old, err |-> "expected a map, got '" \o e.kind \o "'"]

\* mapstructure.NewDecoder refuses a config whose Result is no pointer.
NotAPointer == "result must be a pointer"

\* DecodeEmbedded sets the decoder up before it looks the name up.
DecodeEmbeddedBindsFirst(name, result) ==
    LET r == LookupEmbedded(name)
        dec == IF decoder = NoDecoder THEN result ELSE decoder
        d == DecodeValue(r.val, targets[dec])
        answer(err) == [NoRet EXCEPT !.op = "DecodeEmbedded", !.name = name,
                                     !.target = result, !.err = err,
                                     !.outcome = IF err = NoErr THEN "ok" ELSE "error"]
    IN  /\ Running
        /\ IF decoder = NoDecoder /\ result = NonPointer
           THEN /\ ret' = answer(NotAPointer)
                /\ UNCHANGED <<decoder, targets>>
           ELSE IF r.err # NoErr
                THEN /\ decoder' = dec
                     /\ ret' = answer(r.err)
                     /\ UNCHANGED targets
                ELSE /\ decoder' = dec
                     /\ targets' = [targets EXCEPT ![dec] = d.val]
                     /\ ret' = answer(d.err)
        /\ UNCHANGED <<Links, heap, Embedded, held, lastLinkOp, lastEmbOp, setOrder>>

\* func (h *Hal) DecodeEmbedded(name string, result interface{}) (err error)
\* Every panic of the body carries an error and is recovered into err.  The
\* decoder is built from the `result` of the call that finds h.decoder nil,
\* and every later call decodes through it, into that first result.
DecodeEmbedded(name, result) ==
    LET r == LookupEmbedded(name)
        dec == IF decoder = NoDecoder THEN result ELSE decoder
        d == DecodeValue(r.val, targets[dec])
        answer(err) == [NoRet EXCEPT !.op = "DecodeEmbedded", !.name = name,
                                     !.target = result, !.err = err,
                                     !.outcome = IF err = NoErr THEN "ok" ELSE "error"]
    IN  /\ Running
        /\ IF r.err # NoErr
           THEN /\ ret' = answer(r.err)
                /\ UNCHANGED <<decoder, targets>>
           ELSE IF decoder = NoDecoder /\ result = NonPointer
                THEN /\ ret' = answer(NotAPointer)
                     /\ UNCHANGED <<decoder, targets>>
                ELSE /\ decoder' = dec
                     /\ targets' = [targets EXCEPT ![dec] = d.val]
                     /\ ret' = answer(d.err)
        /\ UNCHANGED <<Links, heap, Embedded, held, lastLinkOp, lastEmbOp, setOrder>>

\* ------------------------------------------------------- the JSON document

\* The host of the tests: HelloWorld{Hal; ID uint `json:"id"`; Name string `json:"name"`}
HostKeys == {"id", "name"}

\* A Link as JSON: `json:"href"` and `json:"title,omitempty"`.
LinkJSON(l) ==
    IF l.Title = "" THEN [href |-> l.Href] ELSE [href |-> l.Href, title |-> l.Title]

\* omitempty leaves out only the nil map.
OmitNil(mp) == ~mp.alloc

\* `omitempty` on a map field: encoding/json leaves out a map of length zero.
OmitEmpty(mp) == Cardinality(DOMAIN mp.m) = 0

\* The bytes of the relation names, which encoding/json compares.
NameBytes ==
    [self |-> <<115, 101, 108, 102>>,
     next |-> <<110, 101, 120, 116>>,
     previous |-> <<112, 114, 101, 118, 105, 111, 117, 115>>]

RECURSIVE BytesLess(_, _)
\* a < b on Go strings: byte by byte, a proper prefix first.
BytesLess(a, b) ==
    IF a = << >> THEN b # << >>
    ELSE IF b = << >> THEN FALSE
    ELSE IF Head(a) # Head(b) THEN Head(a) < Head(b)
    ELSE BytesLess(Tail(a), Tail(b))

\* The keys come out in the order the caller installed them.
InsertionOrder(S) == LET Held(n) == n \in S IN SelectSeq(setOrder, Held)

RECURSIVE KeyOrder(_)
\* The order in which encoding/json writes the keys S of a map: sorted.
KeyOrder(S) ==
    IF S = {} THEN << >>
    ELSE LET least == CHOOSE x \in S :
                          \A y \in S \ {x} : BytesLess(NameBytes[x], NameBytes[y])
         IN  <<least>> \o KeyOrder(S \ {least})

\* json.Marshal of the host: the Hal fields are flattened beside the host's own.
MarshalJSON ==
    [keys |-> HostKeys
                \cup (IF OmitEmpty(Links) THEN {} ELSE {"_links"})
                \cup (IF OmitEmpty(Embedded) THEN {} ELSE {"_embedded"}),
     links |-> [n \in DOMAIN Links.m |-> LinkJSON(heap[Links.m[n]])],
     linkOrder |-> KeyOrder(DOMAIN Links.m),
     embedded |-> Embedded.m]

\* json.Marshal(helloWorld)
Marshal ==
    /\ Running
    /\ ret' = [NoRet EXCEPT !.op = "Marshal", !.outcome = "ok", !.doc = MarshalJSON]
    /\ UNCHANGED <<Links, heap, Embedded, decoder, targets, held,
                   lastLinkOp, lastEmbOp, setOrder>>

\* -------------------------------------------------------------- the caller

\* link, err = helloWorld.GetLink(name): the caller keeps the *Link it got.
CallerKeepLink ==
    /\ Running
    /\ ret.op = "GetLink"
    /\ ret.outcome = "ok"
    /\ held' = ret.link
    /\ heap' = Collect(heap, LiveAddrs(Links.m, ret.link))
    /\ ret' = [NoRet EXCEPT !.op = "CallerKeepLink", !.outcome = "ok"]
    /\ UNCHANGED <<Links, Embedded, decoder, targets, lastLinkOp, lastEmbOp, setOrder>>

\* link.Href = href; link.Title = title: Link's fields are exported, and the
\* pointer GetLink returned is the one the map holds.
CallerWriteLink(href, title) ==
    /\ Running
    /\ held # NilPtr
    /\ heap' = [heap EXCEPT ![held] = [Href |-> href, Title |-> title]]
    /\ ret' = [NoRet EXCEPT !.op = "CallerWriteLink", !.outcome = "ok"]
    /\ UNCHANGED <<Links, Embedded, decoder, targets, held, lastLinkOp, lastEmbOp,
      setOrder>>

\* ------------------------------------------------------ the specifications

\* The calls that touch the links.
NextLinks ==
    \/ \E n \in LinkNames, h \in Hrefs, t \in Titles :
           SetLink(n, h, t) /\ UNCHANGED setOrder
    \/ \E n \in LinkNames : DeleteLink(n) /\ UNCHANGED setOrder
    \/ \E n \in LinkNames : GetLink(n)

\* The calls that touch the embedded resources.
NextEmbedded ==
    \/ \E n \in EmbNames, e \in EmbValues : SetEmbedded(n, e)
    \/ \E n \in EmbNames : DeleteEmbedded(n)
    \/ \E n \in EmbNames : GetEmbedded(n)
    \/ \E n \in EmbNames : CountEmbedded(n)
    \/ \E n \in EmbNames, t \in TargetArgs : DecodeEmbedded(n, t)

Next ==
    \/ NextLinks
    \/ NextEmbedded
    \/ Marshal

\* The methods of one Hal value, called in any order.
Spec == Init /\ [][Next]_vars

NextAlias ==
    \/ NextLinks
    \/ CallerKeepLink
    \/ \E h \in Hrefs, t \in Titles : CallerWriteLink(h, t)

\* The link methods, with a caller that keeps the Links it got from GetLink
\* and writes to their fields.
SpecAlias == Init /\ [][NextAlias]_vars

\* The log without the name n.
Without(seq, n) == LET Other(x) == x # n IN SelectSeq(seq, Other)

NextOrder ==
    \/ \E n \in AllNames, h \in Hrefs, t \in Titles :
           SetLink(n, h, t) /\ setOrder' = Append(Without(setOrder, n), n)
    \/ \E n \in AllNames :
           DeleteLink(n) /\ setOrder' = Without(setOrder, n)
    \/ Marshal

\* The links set and deleted in any order by a caller that logs the order,
\* and the document marshalled in between.
SpecOrder == Init /\ [][NextOrder]_vars

\* ------------------------------------------------------------- the claims

\* C1: every DecodeEmbedded(name, target) that returns no error leaves, in the
\* target passed to that call, the decoded form of the value stored at name,
\* and writes to no other target.
C1_DecodeFillsItsOwnTarget ==
    [][(/\ ret'.op = "DecodeEmbedded"
        /\ ret'.outcome = "ok"
        /\ ret'.target \in Targets)
       => /\ targets'[ret'.target]
               = DecodeValue(Embedded.m[ret'.name], targets[ret'.target]).val
          /\ \A u \in Targets \ {ret'.target} : targets'[u] = targets[u]]_vars

\* C2: no call ends in a panic: every call returns a result or an error.
C2_NoCallPanics == ret.outcome # "panic"

\* C3: the document json.Marshal returns has the key _links exactly when the
\* links map has an entry and the key _embedded exactly when the embedded map
\* has one; with neither, its keys are the host's own.
C3_KeysIffEntries ==
    ret.op = "Marshal" =>
        /\ ("_links" \in ret.doc.keys) <=> (DOMAIN Links.m # {})
        /\ ("_embedded" \in ret.doc.keys) <=> (DOMAIN Embedded.m # {})
        /\ (DOMAIN Links.m = {} /\ DOMAIN Embedded.m = {}) => ret.doc.keys = HostKeys

\* Both maps were allocated and emptied again, and the document is the host's.
C3_Witness ==
    /\ ret.op = "Marshal"
    /\ Links.alloc /\ DOMAIN Links.m = {}
    /\ Embedded.alloc /\ DOMAIN Embedded.m = {}
    /\ ret.doc.keys = {"id", "name"}

\* C4: when the most recent SetLink or DeleteLink of a name is
\* SetLink(name, href, title), GetLink(name) returns no error and a Link with
\* that href and that title.
C4_LastSetLinkWins ==
    (ret.op = "GetLink" /\ lastLinkOp[ret.name].op = "set") =>
        /\ ret.outcome = "ok"
        /\ ret.err = NoErr
        /\ ret.link # NilPtr
        /\ heap[ret.link].Href = lastLinkOp[ret.name].href
        /\ heap[ret.link].Title = lastLinkOp[ret.name].title

\* GetLink answered with the second href and a title while the other name
\* holds a different Link.
C4_Witness ==
    /\ ret.op = "GetLink" /\ ret.name = "self" /\ ret.outcome = "ok"
    /\ lastLinkOp["self"] = [op |-> "set", href |-> "/v1/foo/2", title |-> "Foo"]
    /\ lastLinkOp["next"] = [op |-> "set", href |-> "/v1/foo/1", title |-> ""]
    /\ heap[ret.link] = [Href |-> "/v1/foo/2", Title |-> "Foo"]

\* The message GetLink owes for each name.
C5_Message == [self |-> "Link \"self\" not found", next |-> "Link \"next\" not found"]

\* C5: GetLink(name) returns the nil link and the error `Link "<name>" not
\* found` whenever name is not in the links map, allocated or not.
C5_GetLinkNotFound ==
    (ret.op = "GetLink" /\ ~(Links.alloc /\ ret.name \in DOMAIN Links.m)) =>
        /\ ret.outcome = "error"
        /\ ret.err = C5_Message[ret.name]
        /\ ret.link = NilPtr

\* GetLink failed on a name while the map holds the other name.
C5_Witness ==
    /\ ret.op = "GetLink" /\ ret.name = "self" /\ ret.outcome = "error"
    /\ ret.err = "Link \"self\" not found"
    /\ Links.alloc /\ DOMAIN Links.m = {"next"}

\* The message GetEmbedded owes for each name.
C6_Message ==
    [foobar |-> "Embedded \"foobar\" not found", foobars |-> "Embedded \"foobars\" not found"]

\* C6: GetEmbedded(name) returns no error and the value of the most recent
\* SetEmbedded(name, value) exactly when the name was set and not deleted
\* since; otherwise it returns nil and `Embedded "<name>" not found`.
C6_GetEmbedded ==
    ret.op = "GetEmbedded" =>
        IF lastEmbOp[ret.name].op = "set"
        THEN /\ ret.outcome = "ok"
             /\ ret.err = NoErr
             /\ ret.val = lastEmbOp[ret.name].val
        ELSE /\ ret.outcome = "error"
             /\ ret.err = C6_Message[ret.name]
             /\ ret.val = NilVal

\* GetEmbedded returned the longest slice stored under one name while the
\* other name, once set, is gone.
C6_Witness ==
    /\ ret.op = "GetEmbedded" /\ ret.name = "foobars" /\ ret.outcome = "ok"
    /\ ret.val = SliceVal(MaxLen)
    /\ Embedded.alloc /\ DOMAIN Embedded.m = {"foobars"}

\* C7: CountEmbedded(name) ends in one of three ways: the NotFound error when
\* the name is absent, the element count when the value is a slice or a map,
\* and the error `Embedded object is not a slice or a map` with count 0 for
\* every other value.
C7_CountThreeOutcomes ==
    ret.op = "CountEmbedded" =>
        IF ~(Embedded.alloc /\ ret.name \in DOMAIN Embedded.m)
        THEN ret.outcome = "error" /\ ret.err = C6_Message[ret.name] /\ ret.n = 0
        ELSE IF Embedded.m[ret.name].kind \in {"slice", "map"}
             THEN /\ ret.outcome = "ok"
                  /\ ret.err = NoErr
                  /\ ret.n = ValueLen(Embedded.m[ret.name])
             ELSE /\ ret.outcome = "error"
                  /\ ret.err = "Embedded object is not a slice or a map"
                  /\ ret.n = 0

\* C8: DecodeEmbedded on an absent name returns the NotFound error and leaves
\* the targets, both maps and the decoder as they were.
C8_DecodeAbsent ==
    [][(/\ ret'.op = "DecodeEmbedded"
        /\ ~(Embedded.alloc /\ ret'.name \in DOMAIN Embedded.m))
       => /\ ret'.outcome = "error"
          /\ ret'.err = C6_Message[ret'.name]
          /\ UNCHANGED <<targets, Links, heap, Embedded, decoder>>]_vars

\* The first DecodeEmbedded of the run failed on an absent name, with the
\* other name present, and no decoder exists.
C8_Witness ==
    /\ ret.op = "DecodeEmbedded" /\ ret.name = "foobar" /\ ret.target = "t1"
    /\ ret.err = "Embedded \"foobar\" not found"
    /\ Embedded.alloc /\ DOMAIN Embedded.m = {"foobars"}
    /\ decoder = NoDecoder

\* C9: DeleteLink and DeleteEmbedded never fail; on an absent name or a nil
\* map they change nothing (the map stays nil); on a present name they remove
\* that entry and leave every other entry and the other map as they were.
C9_DeleteFrame ==
    [][/\ ret'.op = "DeleteLink" =>
            /\ ret'.outcome = "ok"
            /\ Links'.alloc = Links.alloc
            /\ DOMAIN Links'.m = DOMAIN Links.m \ {ret'.name}
            /\ \A k \in DOMAIN Links'.m :
                   Links'.m[k] = Links.m[k] /\ heap'[Links'.m[k]] = heap[Links.m[k]]
            /\ ret'.name \notin DOMAIN Links.m => Links' = Links /\ heap' = heap
            /\ UNCHANGED <<Embedded, decoder, targets>>
       /\ ret'.op = "DeleteEmbedded" =>
            /\ ret'.outcome = "ok"
            /\ Embedded'.alloc = Embedded.alloc
            /\ DOMAIN Embedded'.m = DOMAIN Embedded.m \ {ret'.name}
            /\ \A k \in DOMAIN Embedded'.m : Embedded'.m[k] = Embedded.m[k]
            /\ ret'.name \notin DOMAIN Embedded.m => Embedded' = Embedded
            /\ UNCHANGED <<Links, heap, decoder, targets>>]_vars

\* DeleteLink was called on the nil map, which is still nil, while the
\* embedded map holds an entry.
C9_Witness ==
    /\ ret.op = "DeleteLink"
    /\ ~Links.alloc
    /\ DOMAIN Embedded.m = {"foobar"}

\* What GetLink(n) would hand out: whether a Link is found, and its fields.
Retrievable(n) ==
    LET r == LookupLink(n)
    IN  IF r.err = NoErr THEN [found |-> TRUE, link |-> heap[r.link]]
        ELSE [found |-> FALSE, link |-> ZeroLink]

\* C10: the href and title retrievable for a name change only in a
\* SetLink(name, ...) or DeleteLink(name) call, and a Link the caller got from
\* GetLink before a SetLink still carries its href and title after it.
C10_LinkImmutable ==
    [][\A n \in LinkNames :
        /\ Retrievable(n)' # Retrievable(n) =>
               ret'.op \in {"SetLink", "DeleteLink"} /\ ret'.name = n
        /\ (held # NilPtr /\ ret'.op = "SetLink") => heap'[held] = heap[held]]_vars

\* The names the caller's log holds.
Installed == {setOrder[i] : i \in DOMAIN setOrder}

\* C11: whatever the order of the SetLink calls that installed the names, the
\* links of the document are those of the last SetLink of each name, and the
\* keys of _links come out in lexicographic order: next, previous, self.
C11_OrderIrrelevant ==
    ret.op = "Marshal" =>
        /\ DOMAIN ret.doc.links = Installed
        /\ \A n \in Installed :
               ret.doc.links[n]
                   = LinkJSON([Href |-> lastLinkOp[n].href, Title |-> lastLinkOp[n].title])
        /\ ret.doc.linkOrder
               = LET Held(n) == n \in Installed
                 IN  SelectSeq(<<"next", "previous", "self">>, Held)

\* self, next and previous were set in that order, and the document lists
\* next, previous, self.
C11_Witness ==
    /\ ret.op = "Marshal"
    /\ setOrder = <<"self", "next", "previous">>
    /\ ret.doc.linkOrder = <<"next", "previous", "self">>

====
